---- MODULE Spec2Model ----
(***************************************************************************)
(* Smart Face Analytics: the analyzer (backend/face_analyzer.py) and the   *)
(* analysis endpoints with their history store (backend/server.py).        *)
(*                                                                         *)
(* Representation.                                                         *)
(*  - A float in [0,1] (a confidence, a relative coordinate) is an integer *)
(*    number of thousandths: 0.5 is 500.                                   *)
(*  - A Python exception is the record Raise; a normal return of v is      *)
(*    Return(v).  try/except is a test of the field "raised".              *)
(*  - Optional[str] is [some, val]: None is [some |-> FALSE, val |-> ""].  *)
(*  - A quotient a / b of two ints is the exact fraction [num, den] in     *)
(*    lowest terms (Python rounds it to the nearest double).               *)
(*  - A base64 text is a sequence of characters: 0..63 are the alphabet    *)
(*    (by value), PadCh is '=', JunkCh a character outside the alphabet,   *)
(*    CommaCh is ',' and DataImageCh stands for the text 'data:image...'   *)
(*    that starts a data URL.                                              *)
(*  - An image file is abstracted to the byte MagicByte followed by one    *)
(*    byte per pictured face; that byte selects the face's relative box    *)
(*    and its detection score.  Any other content is not an image.         *)
(***************************************************************************)
EXTENDS Integers, Sequences, FiniteSets, TLC

(***************************************************************************)
(* Bounds of the model.                                                    *)
(***************************************************************************)
\* image width and height in pixels
ImgW == 10
ImgH == 8
\* points the mesh model returns when it finds a face (the real mesh: 478)
MeshPoints == 12
\* largest class index the age model and the category model predict
MaxAgeClass == 3
MaxRaceClass == 6
\* largest raw draw of the random generator behind the stubs
MaxRand == 48
\* history records inserted in one run: the requests stop after that
MaxInserts == 2
\* largest processing time in milliseconds
MaxProcMs == 1
\* the records the history requests insert (SpecHistory)
MaxHistoryInserts == 2

(***************************************************************************)
(* Exceptions and basic arithmetic.                                        *)
(***************************************************************************)
Raise == [raised |-> TRUE, val |-> <<>>]
Return(v) == [raised |-> FALSE, val |-> v]

Min(a, b) == IF a <= b THEN a ELSE b
Max(a, b) == IF a >= b THEN a ELSE b

\* int(a / b) for b > 0: Python's int() truncates toward zero
TruncDiv(a, b) == IF a >= 0 THEN a \div b ELSE -((-a) \div b)

RECURSIVE GCD(_, _)
GCD(a, b) == IF b = 0 THEN a ELSE GCD(b, a % b)

\* a / b for ints a >= 0, b > 0
Quot(a, b) == LET g == GCD(a, b) IN [num |-> a \div g, den |-> b \div g]

RECURSIVE SumSeq(_)
SumSeq(s) ==
  IF Len(s) = 0 THEN 0
  ELSE IF Len(s) = 1 THEN s[1]
  ELSE LET m == Len(s) \div 2 IN
       SumSeq(SubSeq(s, 1, m)) + SumSeq(SubSeq(s, m + 1, Len(s)))

\* the sum of a list of fractions
RECURSIVE QSum(_)
QSum(s) ==
  IF Len(s) = 0 THEN Quot(0, 1)
  ELSE IF Len(s) = 1 THEN s[1]
  ELSE LET m == Len(s) \div 2
           a == QSum(SubSeq(s, 1, m))
           b == QSum(SubSeq(s, m + 1, Len(s)))
       IN  Quot((a.num * b.den) + (b.num * a.den), a.den * b.den)

\* a fraction divided by a positive int
QDiv(q, n) == Quot(q.num, q.den * n)

\* 10 ** ndigits
RECURSIVE Pow10(_)
Pow10(ndigits) == IF ndigits = 0 THEN 1 ELSE 10 * Pow10(ndigits - 1)

\* round(q, ndigits) of a fraction q >= 0: to the nearest multiple of
\* 10 ** -ndigits, a tie going to the even one
Round(q, ndigits) ==
  LET p == Pow10(ndigits)
      n == q.num * p
      f == n \div q.den
      r == n % q.den
  IN  Quot(IF 2 * r > q.den THEN f + 1
           ELSE IF 2 * r < q.den THEN f
           ELSE IF f % 2 = 0 THEN f ELSE f + 1, p)

None == [some |-> FALSE, val |-> ""]
Some(s) == [some |-> TRUE, val |-> s]

(***************************************************************************)
(* Base64 text (base64.b64decode, not validating) and the data URL prefix. *)
(***************************************************************************)
Alphabet ==
  <<
     "A", "B", "C", "D", "E", "F", "G", "H", "I", "J", "K", "L", "M", "N", "O", "P",
     "Q", "R", "S", "T", "U", "V", "W", "X", "Y", "Z", "a", "b", "c", "d", "e", "f",
     "g", "h", "i", "j", "k", "l", "m", "n", "o", "p", "q", "r", "s", "t", "u", "v",
     "w", "x", "y", "z", "0", "1", "2", "3", "4", "5", "6", "7", "8", "9", "+", "/" >>

PadCh == "="
CommaCh == ","
\* the text 'data:image/...;base64' that starts a data URL, as one character
DataImageCh == "data:image"

AlphabetSet == { Alphabet[i] : i \in 1..Len(Alphabet) }
B64Index ==
  [c \in AlphabetSet |-> (CHOOSE i \in 1..Len(Alphabet) : Alphabet[i] = c) - 1]

IsB64(c) == c \in AlphabetSet
B64Val(c) == B64Index[c]

\* binascii.a2b_base64 behind b64decode: characters outside the alphabet are
\* skipped, a complete pad ends the input, and input that ends inside a
\* quad is an error ("Incorrect padding")
RECURSIVE A2B(_, _, _, _, _, _)
A2B(s, i, quad, left, pads, out) ==
  IF i > Len(s)
    THEN IF quad # 0 THEN Raise ELSE Return(out)
    ELSE LET c == s[i] IN
         IF c = PadCh
           THEN IF quad >= 2 /\ quad + pads + 1 >= 4
                  THEN Return(out)
                  ELSE A2B(s, i + 1, quad, left,
                           IF quad >= 2 THEN pads + 1 ELSE pads, out)
         ELSE IF ~IsB64(c)
           THEN A2B(s, i + 1, quad, left, pads, out)
         ELSE LET v == B64Val(c) IN
              CASE quad = 0 -> A2B(s, i + 1, 1, v, 0, out)
                [] quad = 1 -> A2B(s, i + 1, 2, v % 16, 0,
                                   Append(out, (left * 4) + (v \div 16)))
                [] quad = 2 -> A2B(s, i + 1, 3, v % 4, 0,
                                   Append(out, (left * 16) + (v \div 4)))
                [] OTHER    -> A2B(s, i + 1, 0, 0, 0,
                                   Append(out, (left * 64) + v))

B64Decode(s) == A2B(s, 1, 0, 0, 0, <<>>)

\* base64.b64encode, as the test client encodes its image
RECURSIVE B64Encode(_)
B64Encode(b) ==
  IF Len(b) = 0 THEN <<>>
  ELSE IF Len(b) = 1 THEN
    << Alphabet[(b[1] \div 4) + 1], Alphabet[((b[1] % 4) * 16) + 1], PadCh, PadCh >>
  ELSE IF Len(b) = 2 THEN
    << Alphabet[(b[1] \div 4) + 1],
       Alphabet[((b[1] % 4) * 16) + (b[2] \div 16) + 1],
       Alphabet[((b[2] % 16) * 4) + 1], PadCh >>
  ELSE
    << Alphabet[(b[1] \div 4) + 1],
       Alphabet[((b[1] % 4) * 16) + (b[2] \div 16) + 1],
       Alphabet[((b[2] % 16) * 4) + (b[3] \div 64) + 1],
       Alphabet[(b[3] % 64) + 1] >> \o B64Encode(SubSeq(b, 4, Len(b)))

\* s.startswith('data:image')
StartsWithDataImage(s) == Len(s) >= 1 /\ s[1] = DataImageCh

\* s.split(','): the pieces of s between its commas
RECURSIVE Split(_, _)
Split(s, cur) ==
  IF s = <<>> THEN << cur >>
  ELSE IF Head(s) = CommaCh THEN << cur >> \o Split(Tail(s), <<>>)
  ELSE Split(Tail(s), Append(cur, Head(s)))

\* s.split(',')[0]: the piece before the first comma
SplitFirst(s) == Return(Split(s, <<>>)[1])

\* s.split(',')[1]: IndexError when s holds no comma
SplitSecond(s) ==
  LET parts == Split(s, <<>>) IN
  IF Len(parts) >= 2 THEN Return(parts[2]) ELSE Raise

(***************************************************************************)
(* Image files and cv2.imdecode.                                           *)
(***************************************************************************)
\* first byte of every file the decoder accepts (0xFF, as a JPEG starts)
MagicByte == 255

\* the relative boxes (thousandths of the image width and height) a face
\* byte can select: inside the image, starting before 0, reaching past 1,
\* and narrower than one pixel
RelBoxes ==
  << [xmin |-> 200,  ymin |-> 250,  width |-> 500, height |-> 500],
     [xmin |-> -150, ymin |-> -130, width |-> 600, height |-> 600],
     [xmin |-> 600,  ymin |-> 500,  width |-> 600, height |-> 700],
     [xmin |-> 500,  ymin |-> 500,  width |-> 40,  height |-> 40] >>

\* the detection scores a face byte can select (min_detection_confidence
\* is 0.5)
DetScores == << 600, 900 >>

FaceBytes == 0..(Len(RelBoxes) * Len(DetScores) - 1)

NoImage == [w |-> 0, h |-> 0, px |-> <<>>]

\* cv2.imdecode(np.frombuffer(image_bytes)): an image, None (NoImage) for
\* bytes that are no image, an error for an empty buffer
ImDecode(b) ==
  IF Len(b) = 0 THEN Raise
  ELSE IF b[1] = MagicByte /\ \A i \in 2..Len(b) : b[i] \in FaceBytes
    THEN Return([w |-> ImgW, h |-> ImgH, px |-> Tail(b)])
    ELSE Return(NoImage)

\* what the face detector sees in an image: one detection per face byte
Detections(image) ==
  [i \in 1..Len(image.px) |->
     [box   |-> RelBoxes[(image.px[i] % Len(RelBoxes)) + 1],
      score |-> DetScores[(image.px[i] \div Len(RelBoxes)) + 1]]]

(***************************************************************************)
(* FaceAnalyzer.detect_faces, get_face_landmarks, crop_face.               *)
(***************************************************************************)
\* detect_faces: detOut is "ok" or "raise" (face_detection.process fails)
DetectFaces(image, detOut) ==
  IF detOut = "raise" THEN <<>>
  ELSE LET ds == Detections(image) IN
       [i \in 1..Len(ds) |->
          [bbox |-> << TruncDiv(ds[i].box.xmin * image.w, 1000),
                       TruncDiv(ds[i].box.ymin * image.h, 1000),
                       TruncDiv(ds[i].box.width * image.w, 1000),
                       TruncDiv(ds[i].box.height * image.h, 1000) >>,
           confidence |-> ds[i].score]]

\* the mesh model's points for a found face, relative to the image
MeshPoint(i) == (i * 1000) \div (MeshPoints + 1)

\* get_face_landmarks: meshOut is "face" (the mesh finds a face), "none" or
\* "raise"
GetFaceLandmarks(image, meshOut) ==
  IF meshOut = "face"
    THEN [i \in 1..MeshPoints |->
            << TruncDiv(MeshPoint(i) * image.w, 1000),
               TruncDiv(MeshPoint(i) * image.h, 1000) >>]
    ELSE <<>>

\* the number of elements of a[lo:hi] for a of length n (lo >= 0)
SliceLen(lo, hi, n) ==
  LET h1 == IF hi < 0 THEN Max(0, hi + n) ELSE Min(hi, n)
      l1 == Min(lo, n)
  IN  Max(0, h1 - l1)

\* the crop rectangle of crop_face with padding 0.2
CropRect(image, bbox) ==
  LET x == bbox[1]
      y == bbox[2]
      w == bbox[3]
      h == bbox[4]
      pad_w == TruncDiv(w * 2, 10)
      pad_h == TruncDiv(h * 2, 10)
  IN  [x1 |-> Max(0, x - pad_w),
       y1 |-> Max(0, y - pad_h),
       x2 |-> Min(image.w, x + w + pad_w),
       y2 |-> Min(image.h, y + h + pad_h)]

\* crop_face: cv2.cvtColor fails on an empty crop
CropFace(image, bbox) ==
  LET r == CropRect(image, bbox) IN
  IF SliceLen(r.y1, r.y2, image.h) = 0 \/ SliceLen(r.x1, r.x2, image.w) = 0
    THEN Raise
    ELSE Return(r)

(***************************************************************************)
(* The three classifiers and their stubs.  "attrs" is the set of model     *)
(* attributes the analyzer holds (hasattr); "out" is what the model call   *)
(* does: [kind, idx or label, score, rnd], kind "ok" or "raise" (emotion:  *)
(* also "empty"), rnd the raw draw a stub reduces to its range.            *)
(***************************************************************************)
\* the confidence of every stub: 0.5
FallbackConf == 500

\* random.randint(a, b) and random.choice(seq) from a raw draw
RandInt(a, b, rnd) == a + (rnd % (b - a + 1))
RandChoice(seq, rnd) == seq[(rnd % Len(seq)) + 1]

\* the age stub drawing from the whole range of ages, 0..100
FallbackAgeEstimationWide(rnd) == << RandInt(0, 100, rnd), FallbackConf >>

\* _fallback_age_estimation
FallbackAgeEstimation(rnd) == << RandInt(18, 65, rnd), FallbackConf >>

\* estimate_age without its try/except
EstimateAgeBody(attrs, out) ==
  IF "age_processor" \in attrs /\ "age_model" \in attrs
    THEN IF out.kind = "raise" THEN Raise
         ELSE Return(<< out.idx, out.score >>)
    ELSE Return(FallbackAgeEstimation(out.rnd))

\* estimate_age with no except clause: the model's exception propagates
EstimateAgeUncaught(attrs, out) == EstimateAgeBody(attrs, out)

\* estimate_age
EstimateAge(attrs, out) ==
  LET r == EstimateAgeBody(attrs, out) IN
  IF r.raised THEN Return(FallbackAgeEstimation(out.rnd)) ELSE r

race_categories == << "Asian", "Black", "Indian", "White", "Middle Eastern" >>

races == << "Asian", "Black", "Indian", "White", "Middle Eastern", "Mixed",
            "Other" >>

\* _fallback_race_classification
FallbackRaceClassification(rnd) == << RandChoice(races, rnd), FallbackConf >>

\* classify_race without its try/except, indexing race_categories with the
\* predicted class itself
ClassifyRaceBodyNoModulo(attrs, out) ==
  IF "race_processor" \in attrs /\ "race_model" \in attrs
    THEN IF out.kind = "raise" \/ out.idx >= Len(race_categories) THEN Raise
         ELSE Return(<< race_categories[out.idx + 1], out.score >>)
    ELSE Return(FallbackRaceClassification(out.rnd))

\* classify_race without its try/except
ClassifyRaceBody(attrs, out) ==
  IF "race_processor" \in attrs /\ "race_model" \in attrs
    THEN IF out.kind = "raise" THEN Raise
         ELSE Return(<< race_categories[(out.idx % Len(race_categories)) + 1],
                        out.score >>)
    ELSE Return(FallbackRaceClassification(out.rnd))

\* classify_race
ClassifyRace(attrs, out) ==
  LET r == ClassifyRaceBody(attrs, out) IN
  IF r.raised THEN Return(FallbackRaceClassification(out.rnd)) ELSE r

emotions == << "Happy", "Sad", "Angry", "Fear", "Surprise", "Disgust",
               "Neutral" >>

\* _fallback_emotion_detection
FallbackEmotionDetection(rnd) == << RandChoice(emotions, rnd), FallbackConf >>

\* the labels the emotion model can answer with, and str.upper() on them
RawLabels == { "happy", "Sad", "NEUTRAL", "contempt" }
Upper(label) ==
  CASE label = "happy"    -> "HAPPY"
    [] label = "Sad"      -> "SAD"
    [] label = "NEUTRAL"  -> "NEUTRAL"
    [] label = "contempt" -> "CONTEMPT"
    [] OTHER              -> label

\* emotion_mapping.get(key, default)
EmotionMapping(key, default) ==
  CASE key = "HAPPY"    -> "Happy"
    [] key = "SAD"      -> "Sad"
    [] key = "ANGRY"    -> "Angry"
    [] key = "FEAR"     -> "Fear"
    [] key = "SURPRISE" -> "Surprise"
    [] key = "DISGUST"  -> "Disgust"
    [] key = "NEUTRAL"  -> "Neutral"
    [] OTHER            -> default

\* detect_emotion's try block: Return(<<>>) when it falls through without
\* returning (no model, or the model answers with no result)
DetectEmotionBody(attrs, out) ==
  IF "emotion_model" \in attrs
    THEN IF out.kind = "raise" THEN Raise
         ELSE IF out.kind = "empty" THEN Return(<<>>)
         ELSE Return(<< EmotionMapping(Upper(out.label), out.label),
                        out.score >>)
    ELSE Return(<<>>)

\* detect_emotion with no except clause: the model's exception propagates
DetectEmotionUncaught(attrs, out) ==
  LET r == DetectEmotionBody(attrs, out) IN
  IF ~r.raised /\ r.val = <<>>
    THEN Return(FallbackEmotionDetection(out.rnd))
    ELSE r

\* detect_emotion
DetectEmotion(attrs, out) ==
  LET r == DetectEmotionBody(attrs, out) IN
  IF r.raised \/ r.val = <<>>
    THEN Return(FallbackEmotionDetection(out.rnd))
    ELSE r

(***************************************************************************)
(* FaceAnalyzer.analyze_image and its two entry points.  "env" is what the *)
(* models do during the call: [det, faces], det the detector's outcome and *)
(* faces[i] = [mesh, age, race, emotion] the outcomes of the calls made    *)
(* for the i-th detected face.                                             *)
(***************************************************************************)
\* the FaceAnalysisResult of one face keeping every landmark
FaceResultAllLandmarks(attrs, image, face, fenv, age, race, emotion) ==
  [face_detected      |-> TRUE,
   confidence         |-> face.confidence,
   bbox               |-> face.bbox,
   age                |-> age[1],
   age_confidence     |-> age[2],
   race               |-> race[1],
   race_confidence    |-> race[2],
   emotion            |-> emotion[1],
   emotion_confidence |-> emotion[2],
   landmarks          |-> GetFaceLandmarks(image, fenv.mesh)]

\* the FaceAnalysisResult of one face
FaceResult(attrs, image, face, fenv, age, race, emotion) ==
  LET landmarks == GetFaceLandmarks(image, fenv.mesh) IN
  [face_detected      |-> TRUE,
   confidence         |-> face.confidence,
   bbox               |-> face.bbox,
   age                |-> age[1],
   age_confidence     |-> age[2],
   race               |-> race[1],
   race_confidence    |-> race[2],
   emotion            |-> emotion[1],
   emotion_confidence |-> emotion[2],
   landmarks          |-> IF landmarks # <<>>
                            THEN SubSeq(landmarks, 1, Min(10, Len(landmarks)))
                            ELSE <<>>]

\* the loop of analyze_image over the detected faces, from face i on: an
\* exception in the loop body ends the loop and keeps the results so far
RECURSIVE AnalyzeFaces(_, _, _, _, _, _)
AnalyzeFaces(attrs, image, faces, fenvs, i, results) ==
  IF i > Len(faces) THEN results
  ELSE LET face_image == CropFace(image, faces[i].bbox)
           age == EstimateAge(attrs, fenvs[i].age)
           race == ClassifyRace(attrs, fenvs[i].race)
           emotion == DetectEmotion(attrs, fenvs[i].emotion)
       IN  IF face_image.raised \/ age.raised \/ race.raised \/ emotion.raised
             THEN results
             ELSE AnalyzeFaces(attrs, image, faces, fenvs, i + 1,
                    Append(results,
                           FaceResult(attrs, image, faces[i], fenvs[i],
                                      age.val, race.val, emotion.val)))

\* analyze_image
AnalyzeImage(attrs, image, env) ==
  LET faces == DetectFaces(image, env.det) IN
  IF faces = <<>> THEN <<>>
  ELSE AnalyzeFaces(attrs, image, faces, env.faces, 1, <<>>)

\* analyze_image_from_bytes without its try/except
AnalyzeImageFromBytesBody(attrs, image_bytes, env) ==
  LET image == ImDecode(image_bytes) IN
  IF image.raised THEN Raise
  ELSE IF image.val = NoImage THEN Return(<<>>)
  ELSE Return(AnalyzeImage(attrs, image.val, env))

\* analyze_image_from_bytes
AnalyzeImageFromBytes(attrs, image_bytes, env) ==
  LET r == AnalyzeImageFromBytesBody(attrs, image_bytes, env) IN
  IF r.raised THEN Return(<<>>) ELSE r

\* analyze_image_from_base64 without its try/except
AnalyzeImageFromBase64Body(attrs, base64_string, env) ==
  LET stripped == IF StartsWithDataImage(base64_string)
                    THEN SplitSecond(base64_string)
                    ELSE Return(base64_string)
  IN  IF stripped.raised THEN Raise
      ELSE LET image_bytes == B64Decode(stripped.val) IN
           IF image_bytes.raised THEN Raise
           ELSE AnalyzeImageFromBytes(attrs, image_bytes.val, env)

\* analyze_image_from_base64 with no except clause
AnalyzeImageFromBase64Uncaught(attrs, base64_string, env) ==
  AnalyzeImageFromBase64Body(attrs, base64_string, env)

\* analyze_image_from_base64 when an exception of the face detector is
\* caught nowhere and reaches the caller
AnalyzeImageFromBase64DetectorFatal(attrs, base64_string, env) ==
  LET stripped == IF StartsWithDataImage(base64_string)
                    THEN SplitSecond(base64_string)
                    ELSE Return(base64_string)
      bytes == IF stripped.raised THEN Raise ELSE B64Decode(stripped.val)
      image == IF bytes.raised THEN Raise ELSE ImDecode(bytes.val)
      r == AnalyzeImageFromBase64Body(attrs, base64_string, env)
  IN  IF ~image.raised /\ image.val # NoImage /\ env.det = "raise"
        THEN Raise
      ELSE IF r.raised THEN Return(<<>>) ELSE r

\* analyze_image_from_base64
AnalyzeImageFromBase64(attrs, base64_string, env) ==
  LET r == AnalyzeImageFromBase64Body(attrs, base64_string, env) IN
  IF r.raised THEN Return(<<>>) ELSE r

(***************************************************************************)
(* The state.                                                              *)
(***************************************************************************)
VARIABLES
  attrs,     \* the model attributes the analyzer holds after _load_models
  history,   \* the analysis_history collection, in insertion order
  inserted,  \* the number of records ever inserted (source of id and time)
  req,       \* the last request received
  resp,      \* the response to it
  call,      \* the last direct call of an analyzer method
  ret,       \* what it returned
  load,      \* the construction of a FaceAnalyzer: what each model load
             \* does, and the loads _load_models attempted
  face_analyzer,    \* the module global of face_analyzer.py (0: None)
  constructed,      \* the number of FaceAnalyzer instances constructed
  thread,           \* the threads calling get_face_analyzer
  returned,         \* the instances get_face_analyzer has returned
  main,             \* the main thread of start_server.py: where it is in
                    \* run / signal_handler, the start-up step that failed,
                    \* and the step of run a signal interrupted
  monitor,          \* where the monitor thread is ("off": not started)
  backend_process,  \* ServerManager.backend_process (0: None)
  frontend_process, \* ServerManager.frontend_process (0: None)
  children,         \* the state of every child process ever started
  exit_code         \* the exit status of the manager (-1: still running)

analyzerVars == << load, face_analyzer, constructed, thread, returned >>
managerVars ==
  << main, monitor, backend_process, frontend_process, children, exit_code >>
vars ==
  << attrs, history, inserted, req, resp, call, ret, analyzerVars,
     managerVars >>

\* largest number of threads calling get_face_analyzer, and of calls each
MaxThreads == 2
MaxCalls == 2
\* largest number of child processes the manager starts in one run
MaxChildren == 3

Threads == 1..MaxThreads

\* no caller of get_face_analyzer
SingletonIdle ==
  /\ face_analyzer = 0
  /\ constructed = 0
  /\ thread = [t \in Threads |-> [pc |-> "idle", calls |-> 0, new |-> 0]]
  /\ returned = {}

\* no FaceAnalyzer under construction, no caller of get_face_analyzer
AnalyzerIdle ==
  /\ load = [phase |-> "loaded"]
  /\ face_analyzer = 0
  /\ constructed = 0
  /\ thread = [t \in Threads |-> [pc |-> "idle", calls |-> 0, new |-> 0]]
  /\ returned = {}

\* the process manager is not running
ManagerIdle ==
  /\ main = [pc |-> "off", failed |-> "none", interrupted |-> "none"]
  /\ monitor = "off"
  /\ backend_process = 0
  /\ frontend_process = 0
  /\ children = <<>>
  /\ exit_code = -1

\* the attribute sets _load_models can leave behind: the age and the
\* category loader set the model first and the processor second
LoadOutcomes ==
  { a \cup e \cup r :
      a \in { {}, {"age_model"}, {"age_model", "age_processor"} },
      e \in { {}, {"emotion_model"} },
      r \in { {}, {"race_model"}, {"race_model", "race_processor"} } }

\* the load outcomes the endpoints are run under: everything loaded, and the
\* age processor and the emotion model missing
RequestLoadOutcomes ==
  { {"age_model", "age_processor", "emotion_model", "race_model",
     "race_processor"},
    {"age_model", "race_model", "race_processor"} }

Init ==
  /\ attrs \in RequestLoadOutcomes
  /\ history = <<>>
  /\ inserted = 0
  /\ req = [endpoint |-> "none"]
  /\ resp = [status |-> 0]
  /\ call = [fn |-> "none"]
  /\ ret = [done |-> FALSE]
  /\ AnalyzerIdle
  /\ ManagerIdle

(***************************************************************************)
(* server.py: the two analysis endpoints.                                  *)
(***************************************************************************)
\* results_data numbered from 0, as enumerate() counts
ResultDictFromZero(i, result) ==
  [face_id         |-> i - 1,
   bbox            |-> [x |-> result.bbox[1], y |-> result.bbox[2],
                        width |-> result.bbox[3], height |-> result.bbox[4]],
   confidence      |-> result.confidence,
   age             |-> [value |-> result.age,
                        confidence |-> result.age_confidence],
   race            |-> [value |-> result.race,
                        confidence |-> result.race_confidence],
   emotion         |-> [value |-> result.emotion,
                        confidence |-> result.emotion_confidence],
   landmarks_count |-> Len(result.landmarks)]

\* one entry of results_data
ResultDict(i, result) ==
  [face_id         |-> i,
   bbox            |-> [x |-> result.bbox[1], y |-> result.bbox[2],
                        width |-> result.bbox[3], height |-> result.bbox[4]],
   confidence      |-> result.confidence,
   age             |-> [value |-> result.age,
                        confidence |-> result.age_confidence],
   race            |-> [value |-> result.race,
                        confidence |-> result.race_confidence],
   emotion         |-> [value |-> result.emotion,
                        confidence |-> result.emotion_confidence],
   landmarks_count |-> Len(result.landmarks)]

\* total_confidence taken as the mean of the confidences
TotalConfidenceMean(analysis_results) ==
  IF analysis_results # <<>>
    THEN SumSeq([i \in 1..Len(analysis_results) |->
                   analysis_results[i].confidence]) \div Len(analysis_results)
    ELSE 0

\* total_confidence: sum(result.confidence ...) if analysis_results else 0
TotalConfidence(analysis_results) ==
  IF analysis_results # <<>>
    THEN SumSeq([i \in 1..Len(analysis_results) |->
                   analysis_results[i].confidence])
    ELSE 0

\* the FaceAnalysisResponse built from the analyzer's results
FaceAnalysisResponse(analysis_results, processing_time, image_info) ==
  LET faces_detected == Len(analysis_results) IN
  [status             |-> 200,
   faces_detected     |-> faces_detected,
   total_confidence   |-> TotalConfidence(analysis_results),
   results            |-> [i \in 1..faces_detected |->
                             ResultDict(i, analysis_results[i])],
   processing_time_ms |-> processing_time,
   image_info         |-> image_info @@ [faces_found |-> faces_detected]]

\* the AnalysisHistory entry with the average age by floor division (//)
AnalysisHistoryFloorAge(analysis_results, processing_time, session_id, n) ==
  LET faces_detected == Len(analysis_results) IN
  [id                 |-> n,
   timestamp          |-> n,
   faces_count        |-> faces_detected,
   avg_age            |-> Quot(SumSeq([i \in 1..faces_detected |->
                                         analysis_results[i].age])
                                 \div faces_detected, 1),
   emotions           |-> [i \in 1..faces_detected |->
                             analysis_results[i].emotion],
   races              |-> [i \in 1..faces_detected |->
                             analysis_results[i].race],
   processing_time_ms |-> processing_time,
   session_id         |-> session_id]

\* the AnalysisHistory entry of a request that found faces
AnalysisHistory(analysis_results, processing_time, session_id, n) ==
  LET faces_detected == Len(analysis_results) IN
  [id                 |-> n,
   timestamp          |-> n,
   faces_count        |-> faces_detected,
   avg_age            |-> Quot(SumSeq([i \in 1..faces_detected |->
                                         analysis_results[i].age]),
                               faces_detected),
   emotions           |-> [i \in 1..faces_detected |->
                             analysis_results[i].emotion],
   races              |-> [i \in 1..faces_detected |->
                             analysis_results[i].race],
   processing_time_ms |-> processing_time,
   session_id         |-> session_id]

\* the handlers' tail without "if faces_detected > 0": the average age of
\* no face divides by zero
StoreAndRespondUnguarded(analysis_results, processing_time, image_info, session_id, insOut, failure) ==
  IF Len(analysis_results) = 0 \/ insOut = "raise"
    THEN /\ resp' = [status |-> 500, detail |-> failure]
         /\ UNCHANGED << history, inserted >>
    ELSE /\ history' = Append(history,
                         AnalysisHistory(analysis_results, processing_time,
                                         session_id, inserted + 1))
         /\ inserted' = inserted + 1
         /\ resp' = FaceAnalysisResponse(analysis_results, processing_time,
                                         image_info)

\* the handlers' tail storing one record per session: a record of the
\* same session is replaced by the new entry
StoreAndRespondUpsert(analysis_results, processing_time, image_info, session_id, insOut, failure) ==
  LET entry == AnalysisHistory(analysis_results, processing_time, session_id,
                               inserted + 1)
      same == { i \in 1..Len(history) : history[i].session_id = session_id }
  IN  /\ resp' = FaceAnalysisResponse(analysis_results, processing_time,
                                      image_info)
      /\ inserted' = inserted + 1
      /\ history' = IF Len(analysis_results) = 0 THEN history
                    ELSE IF same = {} THEN Append(history, entry)
                    ELSE [i \in 1..Len(history) |->
                            IF i \in same
                              THEN [entry EXCEPT !.id = history[i].id]
                              ELSE history[i]]

\* the handlers' tail with the insert in a try of its own: a failed insert
\* is logged and the analysis is answered as usual
StoreAndRespondInsertLogged(analysis_results, processing_time, image_info, session_id, insOut, failure) ==
  /\ resp' = FaceAnalysisResponse(analysis_results, processing_time,
                                  image_info)
  /\ IF Len(analysis_results) > 0 /\ insOut # "raise"
       THEN /\ history' = Append(history,
                            AnalysisHistory(analysis_results,
                              processing_time, session_id, inserted + 1))
            /\ inserted' = inserted + 1
       ELSE UNCHANGED << history, inserted >>

\* the part the two handlers share, from the analyzer's results on: the
\* response, and the history insert (insOut "raise": insert_one fails)
StoreAndRespond(analysis_results, processing_time, image_info, session_id, insOut, failure) ==
  IF Len(analysis_results) > 0
    THEN IF insOut = "raise"
           THEN /\ resp' = [status |-> 500, detail |-> failure]
                /\ UNCHANGED << history, inserted >>
           ELSE /\ history' = Append(history,
                                AnalysisHistory(analysis_results,
                                  processing_time, session_id, inserted + 1))
                /\ inserted' = inserted + 1
                /\ resp' = FaceAnalysisResponse(analysis_results,
                             processing_time, image_info)
    ELSE /\ resp' = FaceAnalysisResponse(analysis_results, processing_time,
                      image_info)
         /\ UNCHANGED << history, inserted >>

\* POST /api/analyze-image
analyze_image_endpoint(image_data, session_id, env, processing_time, insOut) ==
  /\ req' = [endpoint |-> "analyze-image", image_data |-> image_data,
             session_id |-> session_id, det |-> env.det, insOut |-> insOut]
  /\ LET r == AnalyzeImageFromBase64(attrs, image_data, env) IN
     IF r.raised
       THEN /\ resp' = [status |-> 500, detail |-> "Analysis failed"]
            /\ UNCHANGED << history, inserted >>
       ELSE StoreAndRespond(r.val, processing_time, [format |-> "base64"],
                            session_id, insOut, "Analysis failed")
  /\ UNCHANGED << attrs, call, ret >>
  /\ UNCHANGED << analyzerVars, managerVars >>

\* file.content_type.startswith('image/'); a content type is <<type, subtype>>
StartsWithImage(content_type) == content_type[1] = "image"

\* POST /api/analyze-upload: the HTTPException(400) of the type check is
\* raised inside the handler's try and caught by its "except Exception";
\* a part without a content type (<<>>, None) fails on .startswith.  The
\* file name, which the handler only copies into image_info, is left out.
analyze_uploaded_file(content_type, file_contents, session_id, env, processing_time, insOut) ==
  /\ req' = [endpoint |-> "analyze-upload", content_type |-> content_type,
             file_contents |-> file_contents, session_id |-> session_id,
             det |-> env.det, insOut |-> insOut]
  /\ IF content_type = <<>>
       THEN /\ resp' = [status |-> 500,
                        detail |-> "File analysis failed: no attribute startswith"]
            /\ UNCHANGED << history, inserted >>
     ELSE IF ~StartsWithImage(content_type)
       THEN /\ resp' = [status |-> 500,
                        detail |-> "File analysis failed: 400: File must be an image"]
            /\ UNCHANGED << history, inserted >>
       ELSE LET r == AnalyzeImageFromBytes(attrs, file_contents, env) IN
            IF r.raised
              THEN /\ resp' = [status |-> 500, detail |-> "File analysis failed"]
                   /\ UNCHANGED << history, inserted >>
              ELSE StoreAndRespond(r.val, processing_time,
                                   [size |-> Len(file_contents),
                                    content_type |-> content_type],
                                   session_id, insOut, "File analysis failed")
  /\ UNCHANGED << attrs, call, ret >>
  /\ UNCHANGED << analyzerVars, managerVars >>

(***************************************************************************)
(* server.py: the history endpoints.  insert_one, find and delete_many     *)
(* act on the collection in insertion order; dbOut "raise" is the          *)
(* database call failing.                                                  *)
(***************************************************************************)
\* the length get_analytics_summary passes to to_list
ToListLength == 1000
\* the default of the limit parameter of get_analysis_history
DefaultLimit == 100

\* the query of the three handlers: "if session_id:" adds the equality on
\* session_id for a string that is not empty; <<>> is the query {}
Query(session_id) ==
  IF session_id.some /\ session_id.val # "" THEN << session_id.val >>
  ELSE <<>>

Matches(query, item) == query = <<>> \/ item.session_id = Some(query[1])

\* db.analysis_history.find(query)
Find(collection, query) ==
  SelectSeq(collection, LAMBDA item : Matches(query, item))

\* cursor.sort("timestamp", -1)
SortByTimestampDesc(cursor) ==
  SortSeq(cursor, LAMBDA a, b : a.timestamp > b.timestamp)

\* cursor.limit(limit): 0 is no limit
Limit(cursor, limit) ==
  IF limit = 0 THEN cursor ELSE SubSeq(cursor, 1, Min(limit, Len(cursor)))

\* cursor.to_list(length): the first length documents
ToList(cursor, length) == SubSeq(cursor, 1, Min(length, Len(cursor)))

\* get_analysis_history without the sort
HistoryItemsUnsorted(collection, session_id, limit) ==
  ToList(Limit(Find(collection, Query(session_id)), limit), limit)

\* the list get_analysis_history returns
HistoryItems(collection, session_id, limit) ==
  ToList(Limit(SortByTimestampDesc(Find(collection, Query(session_id))),
               limit), limit)

\* GET /api/analysis-history
get_analysis_history(session_id, limit, dbOut) ==
  /\ req' = [endpoint |-> "analysis-history", session_id |-> session_id,
             limit |-> limit, dbOut |-> dbOut]
  /\ resp' = IF dbOut = "raise"
               THEN [status |-> 500, detail |-> "Failed to fetch history"]
               ELSE [status |-> 200,
                     items  |-> HistoryItems(history, session_id, limit)]
  /\ UNCHANGED << attrs, history, inserted, call, ret >>
  /\ UNCHANGED << analyzerVars, managerVars >>

\* the first label of each item's list only
ExtendHeads(lists) ==
  LET filled == SelectSeq(lists, LAMBDA l : l # <<>>) IN
  [i \in 1..Len(filled) |-> filled[i][1]]

\* all_emotions / all_races: the lists of the items, one after the other
RECURSIVE Extend(_)
Extend(lists) ==
  IF Len(lists) = 0 THEN <<>>
  ELSE IF Len(lists) = 1 THEN lists[1]
  ELSE LET m == Len(lists) \div 2 IN
       Extend(SubSeq(lists, 1, m)) \o Extend(SubSeq(lists, m + 1, Len(lists)))

\* dist.get(label, 0)
DistGet(dist, label) == IF label \in DOMAIN dist THEN dist[label] ELSE 0

\* the dict that marks the labels of a list: dist[l] = 1
DistributionOnce(labels) ==
  [l \in { labels[i] : i \in 1..Len(labels) } |-> 1]

\* the dict counting the labels of a list: dist[l] = dist.get(l, 0) + 1
RECURSIVE Distribution(_)
Distribution(labels) ==
  IF Len(labels) = 0 THEN <<>>
  ELSE IF Len(labels) = 1 THEN (labels[1] :> 1)
  ELSE LET m == Len(labels) \div 2
           a == Distribution(SubSeq(labels, 1, m))
           b == Distribution(SubSeq(labels, m + 1, Len(labels)))
       IN  [l \in DOMAIN a \cup DOMAIN b |-> DistGet(a, l) + DistGet(b, l)]

\* the summary of the fetched records, which are not empty
Summary(fetched) ==
  LET all_ages == SelectSeq([i \in 1..Len(fetched) |-> fetched[i].avg_age],
                            LAMBDA a : a.num # 0)
      all_emotions == Extend([i \in 1..Len(fetched) |-> fetched[i].emotions])
      all_races == Extend([i \in 1..Len(fetched) |-> fetched[i].races])
      processing_times ==
        SelectSeq([i \in 1..Len(fetched) |-> fetched[i].processing_time_ms],
                  LAMBDA t : t # 0)
      avg_age == IF all_ages # <<>>
                   THEN QDiv(QSum(all_ages), Len(all_ages))
                   ELSE Quot(0, 1)
      avg_processing_time ==
        IF processing_times # <<>>
          THEN Quot(SumSeq(processing_times), Len(processing_times))
          ELSE Quot(0, 1)
  IN  [status               |-> 200,
       total_analyses       |-> Len(fetched),
       total_faces          |-> SumSeq([i \in 1..Len(fetched) |->
                                          fetched[i].faces_count]),
       avg_age              |-> Round(avg_age, 1),
       emotion_distribution |-> Distribution(all_emotions),
       race_distribution    |-> Distribution(all_races),
       avg_processing_time  |-> Round(avg_processing_time, 2)]

\* the summary of no record
EmptySummary ==
  [status               |-> 200,
   total_analyses       |-> 0,
   total_faces          |-> 0,
   avg_age              |-> Quot(0, 1),
   emotion_distribution |-> <<>>,
   race_distribution    |-> <<>>,
   avg_processing_time  |-> Quot(0, 1)]

\* the summary without "if not history" and without the "else 0" of the
\* two averages: the mean of no value divides by zero
AnalyticsSummaryUnguarded(collection, session_id) ==
  LET fetched == ToList(Find(collection, Query(session_id)), ToListLength) IN
  IF fetched = <<>> \/ (\A i \in 1..Len(fetched) : fetched[i].avg_age.num = 0)
       \/ (\A i \in 1..Len(fetched) : fetched[i].processing_time_ms = 0)
    THEN [status |-> 500, detail |-> "Failed to generate analytics"]
    ELSE Summary(fetched)

\* what get_analytics_summary returns when the database answers
AnalyticsSummary(collection, session_id) ==
  LET fetched == ToList(Find(collection, Query(session_id)), ToListLength) IN
  IF fetched = <<>> THEN EmptySummary ELSE Summary(fetched)

\* GET /api/analytics/summary
get_analytics_summary(session_id, dbOut) ==
  /\ req' = [endpoint |-> "analytics-summary", session_id |-> session_id,
             dbOut |-> dbOut]
  /\ resp' = IF dbOut = "raise"
               THEN [status |-> 500, detail |-> "Failed to generate analytics"]
               ELSE AnalyticsSummary(history, session_id)
  /\ UNCHANGED << attrs, history, inserted, call, ret >>
  /\ UNCHANGED << analyzerVars, managerVars >>

\* delete_many(query) reporting the number of records it looked at
DeleteManyCountAll(collection, query) ==
  [left          |-> SelectSeq(collection, LAMBDA item : ~Matches(query, item)),
   deleted_count |-> Len(collection)]

\* db.analysis_history.delete_many(query)
DeleteMany(collection, query) ==
  LET left == SelectSeq(collection, LAMBDA item : ~Matches(query, item)) IN
  [left |-> left, deleted_count |-> Len(collection) - Len(left)]

\* DELETE /api/analysis-history
clear_analysis_history(session_id, dbOut) ==
  /\ req' = [endpoint |-> "clear-history", session_id |-> session_id,
             dbOut |-> dbOut]
  /\ IF dbOut = "raise"
       THEN /\ resp' = [status |-> 500, detail |-> "Failed to clear history"]
            /\ UNCHANGED history
       ELSE LET result == DeleteMany(history, Query(session_id)) IN
            /\ history' = result.left
            /\ resp' = [status |-> 200, deleted_count |-> result.deleted_count]
  /\ UNCHANGED << attrs, inserted, call, ret >>
  /\ UNCHANGED << analyzerVars, managerVars >>

(***************************************************************************)
(* The inputs of the requests.                                             *)
(***************************************************************************)
AgeOut(kind, idx, score, rnd) ==
  [kind |-> kind, idx |-> idx, score |-> score, rnd |-> rnd]
RaceOut(kind, idx, score, rnd) ==
  [kind |-> kind, idx |-> idx, score |-> score, rnd |-> rnd]
EmotionOut(kind, label, score, rnd) ==
  [kind |-> kind, label |-> label, score |-> score, rnd |-> rnd]
FaceEnv(mesh, age, race, emotion) ==
  [mesh |-> mesh, age |-> age, race |-> race, emotion |-> emotion]

\* a data URL around a base64 text
DataUrl(text) == << DataImageCh, CommaCh >> \o text

\* the number of faces pictured in a file (0 when it is no image)
FacesIn(file) ==
  LET d == ImDecode(file) IN IF d.raised THEN 0 ELSE Len(d.val.px)

\* what the models can do during the analysis of a picture of n faces
Envs(FE, n) ==
  { [det |-> "raise", faces |-> <<>>] }
    \cup { [det |-> "ok", faces |-> f] : f \in [1..n -> FE] }

Outcomes == { "ok", "raise" }

\* what insert_one can do in a request for a picture of n faces (it is not
\* called when no face is found)
InsertOutcomes(n) == IF n = 0 THEN { "ok" } ELSE Outcomes

\* the requests of the endpoints: pictures with a box inside the image
\* (face byte 0), one starting before 0 (5) and one narrower than a pixel
\* (7); per face, either every model answering or every model failing
RequestFiles ==
  { <<>>, << 0 >>, << MagicByte >>,
    << MagicByte, 0 >>, << MagicByte, 5 >>, << MagicByte, 7 >>,
    << MagicByte, 0, 5 >>, << MagicByte, 5, 7 >>, << MagicByte, 7, 0 >> }
RequestPayloads ==
  { B64Encode(f) : f \in RequestFiles }
    \cup { DataUrl(B64Encode(f)) : f \in { << 0 >>, << MagicByte, 5 >> } }
    \cup { << "A" >>, << "/", "w" >>, << DataImageCh, "A", "A", "=", "=" >> }
RequestFaceEnvs ==
  { FaceEnv("face", AgeOut("ok", MaxAgeClass, 870, 0),
            RaceOut("ok", MaxRaceClass, 640, 0),
            EmotionOut("ok", "happy", 910, 0)),
    FaceEnv("raise", AgeOut("raise", 0, 0, MaxRand),
            RaceOut("raise", 0, 0, MaxRand),
            EmotionOut("empty", "", 0, MaxRand)) }
RequestSessions == { None, Some("s1") }
\* the uploads, << content type, file >>: every file as image/jpeg, and one
\* picture as text/plain and without a content type
RequestUploads ==
  { << << "image", "jpeg" >>, f >> : f \in RequestFiles }
    \cup { << << "text", "plain" >>, << MagicByte, 0 >> >>,
           << <<>>, << MagicByte, 0 >> >> }
RequestTimes == { MaxProcMs }

\* the file an image_data text carries (<<>> when it carries none)
FileOf(image_data) ==
  LET stripped == IF StartsWithDataImage(image_data)
                    THEN SplitSecond(image_data) ELSE Return(image_data)
      b == IF stripped.raised THEN Raise ELSE B64Decode(stripped.val)
  IN  IF b.raised THEN <<>> ELSE b.val

AnalyzeImageRequest ==
  /\ inserted < MaxInserts
  /\ \E image_data \in RequestPayloads, session_id \in RequestSessions,
        processing_time \in RequestTimes :
       \E env \in Envs(RequestFaceEnvs, FacesIn(FileOf(image_data))),
          insOut \in InsertOutcomes(FacesIn(FileOf(image_data))) :
         analyze_image_endpoint(image_data, session_id, env, processing_time,
                                insOut)

AnalyzeUploadRequest ==
  /\ inserted < MaxInserts
  /\ \E upload \in RequestUploads, session_id \in RequestSessions,
        processing_time \in RequestTimes :
       \E env \in Envs(RequestFaceEnvs, FacesIn(upload[2])),
          insOut \in InsertOutcomes(FacesIn(upload[2])) :
         analyze_uploaded_file(upload[1], upload[2], session_id, env,
                               processing_time, insOut)

Next == AnalyzeImageRequest \/ AnalyzeUploadRequest

Spec == Init /\ [][Next]_vars

(***************************************************************************)
(* Direct calls of the analyzer's methods: the call is drawn at the start  *)
(* and applied once, under every load outcome.                             *)
(***************************************************************************)
ModelScores == { 340, 870, 1000 }
Rands == 0..MaxRand

AgeOuts ==
  { AgeOut("ok", i, sc, r) : i \in 0..MaxAgeClass, sc \in ModelScores,
                             r \in { 0, MaxRand } }
    \cup { AgeOut("raise", 0, 0, r) : r \in Rands }
RaceOuts ==
  { RaceOut("ok", i, sc, r) : i \in 0..MaxRaceClass, sc \in ModelScores,
                              r \in { 0, MaxRand } }
    \cup { RaceOut("raise", 0, 0, r) : r \in Rands }
EmotionOuts ==
  { EmotionOut("ok", l, sc, r) : l \in RawLabels, sc \in ModelScores,
                                 r \in { 0, MaxRand } }
    \cup { EmotionOut(k, "", 0, r) : k \in { "raise", "empty" }, r \in Rands }

\* analyze_image: pictures of one face with each box, and of two faces;
\* per face every combination of the models answering and failing
CallPictures ==
  { <<>>, << 0 >>, << 5 >>, << 2 >>, << 7 >>, << 0, 5 >>, << 6, 4 >>,
    << 7, 0 >>, << 1, 7 >> }
CallFaceEnvs ==
  { FaceEnv(m, a, r, e) :
      m \in { "face", "none", "raise" },
      a \in { AgeOut("ok", MaxAgeClass, 870, 0), AgeOut("raise", 0, 0, MaxRand) },
      r \in { RaceOut("ok", MaxRaceClass, 640, 0),
              RaceOut("raise", 0, 0, MaxRand) },
      e \in { EmotionOut("ok", "happy", 910, 0),
              EmotionOut("raise", "", 0, MaxRand),
              EmotionOut("empty", "", 0, MaxRand) } }

AnalyzerCalls ==
  { [fn |-> "estimate_age", out |-> o] : o \in AgeOuts }
    \cup { [fn |-> "classify_race", out |-> o] : o \in RaceOuts }
    \cup { [fn |-> "detect_emotion", out |-> o] : o \in EmotionOuts }
    \cup UNION { { [fn |-> "analyze_image",
                    image |-> [w |-> ImgW, h |-> ImgH, px |-> p],
                    env |-> e] : e \in Envs(CallFaceEnvs, Len(p)) }
                 : p \in CallPictures }

InitAnalyzer ==
  /\ attrs \in LoadOutcomes
  /\ history = <<>>
  /\ inserted = 0
  /\ req = [endpoint |-> "none"]
  /\ resp = [status |-> 0]
  /\ call \in AnalyzerCalls
  /\ ret = [done |-> FALSE]
  /\ AnalyzerIdle
  /\ ManagerIdle

Returned(r) ==
  /\ ~ret.done
  /\ ret' = [done |-> TRUE, r |-> r]
  /\ UNCHANGED << attrs, history, inserted, req, resp, call >>
  /\ UNCHANGED << analyzerVars, managerVars >>

CallEstimateAge ==
  /\ call.fn = "estimate_age"
  /\ Returned(EstimateAge(attrs, call.out))

CallClassifyRace ==
  /\ call.fn = "classify_race"
  /\ Returned(ClassifyRace(attrs, call.out))

CallDetectEmotion ==
  /\ call.fn = "detect_emotion"
  /\ Returned(DetectEmotion(attrs, call.out))

CallAnalyzeImage ==
  /\ call.fn = "analyze_image"
  /\ Returned(Return(AnalyzeImage(attrs, call.image, call.env)))

NextAnalyzer ==
  CallEstimateAge \/ CallClassifyRace \/ CallDetectEmotion \/ CallAnalyzeImage

SpecAnalyzer == InitAnalyzer /\ [][NextAnalyzer]_vars

(***************************************************************************)
(* The history endpoints among analysis requests: the store starts empty   *)
(* or holds one record more than the summary fetches.                      *)
(***************************************************************************)
AllLoaded ==
  {"age_model", "age_processor", "emotion_model", "race_model",
   "race_processor"}

\* a face the models put at age class 0, one they all answer for, and one
\* they all fail on
FaceAgeZero ==
  FaceEnv("face", AgeOut("ok", 0, 870, 0), RaceOut("ok", 0, 640, 0),
          EmotionOut("ok", "happy", 910, 0))
FaceModel ==
  FaceEnv("face", AgeOut("ok", MaxAgeClass, 870, 0),
          RaceOut("ok", MaxRaceClass, 640, 0),
          EmotionOut("ok", "happy", 910, 0))
FaceStub ==
  FaceEnv("none", AgeOut("raise", 0, 0, MaxRand),
          RaceOut("raise", 0, 0, MaxRand),
          EmotionOut("empty", "", 0, MaxRand))

\* the analyses, << file, what the models do >>: one face of age 0, two
\* faces, and no face
HistoryAnalyses ==
  { << << MagicByte, 0 >>, [det |-> "ok", faces |-> << FaceAgeZero >>] >>,
    << << MagicByte, 0, 4 >>,
       [det |-> "ok", faces |-> << FaceModel, FaceStub >>] >>,
    << << MagicByte >>, [det |-> "ok", faces |-> <<>>] >> }
HistorySessions == { None, Some("s1"), Some("s2") }
HistoryTimes == { 0, MaxProcMs }
QuerySessions == { None, Some(""), Some("s1"), Some("s2") }
Limits == { 0, 1, 2, DefaultLimit }

\* the store after ToListLength + 1 analyses of one face in session s1
BigStore ==
  LET analysis_results ==
        AnalyzeImageFromBytes(AllLoaded, << MagicByte, 0 >>,
          [det |-> "ok", faces |-> << FaceModel >>]).val
  IN  [n \in 1..(ToListLength + 1) |->
         AnalysisHistory(analysis_results, MaxProcMs, Some("s1"), n)]

InitHistory ==
  /\ attrs = AllLoaded
  /\ history \in { <<>>, BigStore }
  /\ inserted = Len(history)
  /\ req = [endpoint |-> "none"]
  /\ resp = [status |-> 0]
  /\ call = [fn |-> "none"]
  /\ ret = [done |-> FALSE]
  /\ AnalyzerIdle
  /\ ManagerIdle

HistoryAnalyzeImage ==
  /\ inserted < MaxHistoryInserts
  /\ \E a \in HistoryAnalyses, session_id \in HistorySessions,
        processing_time \in HistoryTimes :
       \E insOut \in InsertOutcomes(FacesIn(a[1])) :
         analyze_image_endpoint(B64Encode(a[1]), session_id, a[2],
                                processing_time, insOut)

HistoryAnalyzeUpload ==
  /\ inserted < MaxHistoryInserts
  /\ analyze_uploaded_file(<< "image", "jpeg" >>, << MagicByte, 0 >>,
                           Some("s1"),
                           [det |-> "ok", faces |-> << FaceAgeZero >>],
                           MaxProcMs, "ok")

GetAnalysisHistory ==
  \E session_id \in QuerySessions, limit \in Limits, dbOut \in Outcomes :
    get_analysis_history(session_id, limit, dbOut)

GetAnalyticsSummary ==
  \E session_id \in QuerySessions, dbOut \in Outcomes :
    get_analytics_summary(session_id, dbOut)

ClearAnalysisHistory ==
  \E session_id \in QuerySessions, dbOut \in Outcomes :
    clear_analysis_history(session_id, dbOut)

NextHistory ==
  \/ HistoryAnalyzeImage
  \/ HistoryAnalyzeUpload
  \/ GetAnalysisHistory
  \/ GetAnalyticsSummary
  \/ ClearAnalysisHistory

SpecHistory == InitHistory /\ [][NextHistory]_vars

(***************************************************************************)
(* Properties of the analysis endpoints (Spec).                            *)
(***************************************************************************)
(* FaceAnalyzer.__init__ and _load_models: each from_pretrained / pipeline *)
(* call loads ("ok") or raises; methods are called on the analyzer built.  *)
(***************************************************************************)
LoadOuts ==
  [age_model : Outcomes, age_processor : Outcomes, emotion_model : Outcomes,
   emotion_fallback : Outcomes, race_model : Outcomes,
   race_processor : Outcomes]

\* the try block of the age model: the model, then the processor
LoadAge(outs) ==
  IF outs.age_model = "raise"
    THEN [ok |-> FALSE, attrs |-> {}, attempted |-> << "age_model" >>]
  ELSE IF outs.age_processor = "raise"
    THEN [ok |-> FALSE, attrs |-> { "age_model" },
          attempted |-> << "age_model", "age_processor" >>]
  ELSE [ok |-> TRUE, attrs |-> { "age_model", "age_processor" },
        attempted |-> << "age_model", "age_processor" >>]

\* the try block of the emotion model: the fallback pipeline is loaded in
\* the except clause of the primary one
LoadEmotion(outs) ==
  IF outs.emotion_model = "ok"
    THEN [ok |-> TRUE, attrs |-> { "emotion_model" },
          attempted |-> << "emotion_model" >>]
  ELSE IF outs.emotion_fallback = "ok"
    THEN [ok |-> TRUE, attrs |-> { "emotion_model" },
          attempted |-> << "emotion_model", "emotion_fallback" >>]
  ELSE [ok |-> FALSE, attrs |-> {},
        attempted |-> << "emotion_model", "emotion_fallback" >>]

\* the try block of the category model: the model, then the processor
LoadRace(outs) ==
  IF outs.race_model = "raise"
    THEN [ok |-> FALSE, attrs |-> {}, attempted |-> << "race_model" >>]
  ELSE IF outs.race_processor = "raise"
    THEN [ok |-> FALSE, attrs |-> { "race_model" },
          attempted |-> << "race_model", "race_processor" >>]
  ELSE [ok |-> TRUE, attrs |-> { "race_model", "race_processor" },
        attempted |-> << "race_model", "race_processor" >>]

\* _load_models with the outer try only: the first load that fails ends
\* the loading
LoadModelsOneTry(outs) ==
  LET a == LoadAge(outs)
      e == LoadEmotion(outs)
      r == LoadRace(outs)
  IN  IF ~a.ok THEN [raised |-> FALSE, attrs |-> a.attrs,
                     attempted |-> a.attempted]
      ELSE IF outs.emotion_model = "raise"
        THEN [raised |-> FALSE, attrs |-> a.attrs,
              attempted |-> a.attempted \o << "emotion_model" >>]
      ELSE [raised |-> FALSE, attrs |-> a.attrs \cup e.attrs \cup r.attrs,
            attempted |-> a.attempted \o e.attempted \o r.attempted]

\* _load_models: the three blocks one after the other, each catching its
\* own exceptions
LoadModels(outs) ==
  LET a == LoadAge(outs)
      e == LoadEmotion(outs)
      r == LoadRace(outs)
  IN  [raised |-> FALSE, attrs |-> a.attrs \cup e.attrs \cup r.attrs,
       attempted |-> a.attempted \o e.attempted \o r.attempted]

\* the calls made on the analyzer built: each classifier with its model
\* answering and raising
LoadCalls ==
  { [fn |-> "estimate_age", out |-> o] :
      o \in { AgeOut("ok", MaxAgeClass, 870, 0),
              AgeOut("raise", 0, 0, MaxRand) } }
    \cup { [fn |-> "classify_race", out |-> o] :
             o \in { RaceOut("ok", MaxRaceClass, 640, 0),
                     RaceOut("raise", 0, 0, MaxRand) } }
    \cup { [fn |-> "detect_emotion", out |-> o] :
             o \in { EmotionOut("ok", "happy", 910, 0),
                     EmotionOut("raise", "", 0, MaxRand) } }

InitLoad ==
  /\ attrs = {}
  /\ history = <<>>
  /\ inserted = 0
  /\ req = [endpoint |-> "none"]
  /\ resp = [status |-> 0]
  /\ call \in LoadCalls
  /\ ret = [done |-> FALSE]
  /\ \E outs \in LoadOuts :
       load = [phase |-> "new", outs |-> outs, attempted |-> <<>>]
  /\ SingletonIdle
  /\ ManagerIdle

\* FaceAnalyzer(): __init__ runs _load_models
Construct ==
  /\ load.phase = "new"
  /\ LET r == LoadModels(load.outs) IN
     /\ attrs' = r.attrs
     /\ load' = [load EXCEPT !.phase = IF r.raised THEN "aborted"
                                       ELSE "constructed",
                             !.attempted = r.attempted]
  /\ UNCHANGED << history, inserted, req, resp, call, ret, face_analyzer,
                  constructed, thread, returned, managerVars >>

NextLoad ==
  \/ Construct
  \/ load.phase = "constructed" /\ CallEstimateAge
  \/ load.phase = "constructed" /\ CallClassifyRace
  \/ load.phase = "constructed" /\ CallDetectEmotion

SpecLoad == InitLoad /\ [][NextLoad]_vars

(***************************************************************************)
(* face_analyzer.py: get_face_analyzer called from several threads.  A     *)
(* thread can be preempted between the test of the global, the construction *)
(* of the FaceAnalyzer, the assignment and the return.                     *)
(***************************************************************************)
InitSingleton ==
  /\ attrs = {}
  /\ history = <<>>
  /\ inserted = 0
  /\ req = [endpoint |-> "none"]
  /\ resp = [status |-> 0]
  /\ call = [fn |-> "none"]
  /\ ret = [done |-> FALSE]
  /\ AnalyzerIdle
  /\ ManagerIdle

\* what a step of get_face_analyzer leaves alone
SingletonFrame ==
  UNCHANGED << attrs, history, inserted, req, resp, call, ret, load,
               managerVars >>

\* a thread calls get_face_analyzer()
GetFaceAnalyzerCall(t) ==
  /\ thread[t].pc = "idle"
  /\ thread[t].calls < MaxCalls
  /\ thread' = [thread EXCEPT ![t].pc = "test", ![t].calls = @ + 1]
  /\ UNCHANGED << face_analyzer, constructed, returned >>
  /\ SingletonFrame

\* if face_analyzer is None:
GetFaceAnalyzerTest(t) ==
  /\ thread[t].pc = "test"
  /\ thread' = [thread EXCEPT ![t].pc = IF face_analyzer = 0
                                         THEN "construct" ELSE "return"]
  /\ UNCHANGED << face_analyzer, constructed, returned >>
  /\ SingletonFrame

\* FaceAnalyzer(): a new instance, numbered in the order of construction
GetFaceAnalyzerConstruct(t) ==
  /\ thread[t].pc = "construct"
  /\ constructed' = constructed + 1
  /\ thread' = [thread EXCEPT ![t].pc = "assign", ![t].new = constructed + 1]
  /\ UNCHANGED << face_analyzer, returned >>
  /\ SingletonFrame

\* face_analyzer = <the new instance>
GetFaceAnalyzerAssign(t) ==
  /\ thread[t].pc = "assign"
  /\ face_analyzer' = thread[t].new
  /\ thread' = [thread EXCEPT ![t].pc = "return"]
  /\ UNCHANGED << constructed, returned >>
  /\ SingletonFrame

\* return face_analyzer
GetFaceAnalyzerReturn(t) ==
  /\ thread[t].pc = "return"
  /\ returned' = returned \cup { face_analyzer }
  /\ thread' = [thread EXCEPT ![t].pc = "idle"]
  /\ UNCHANGED << face_analyzer, constructed >>
  /\ SingletonFrame

NextSingleton ==
  \E t \in Threads :
    \/ GetFaceAnalyzerCall(t)
    \/ GetFaceAnalyzerTest(t)
    \/ GetFaceAnalyzerConstruct(t)
    \/ GetFaceAnalyzerAssign(t)
    \/ GetFaceAnalyzerReturn(t)

SpecSingleton == InitSingleton /\ [][NextSingleton]_vars

(***************************************************************************)
\* the file a request carries, and whether the handler hands it to the
\* analyzer (an upload is analysed only under an image/ content type)
ReqFile(r) ==
  IF r.endpoint = "analyze-image" THEN FileOf(r.image_data)
  ELSE r.file_contents
ReqAnalyzed(r) ==
  \/ r.endpoint = "analyze-image"
  \/ /\ r.endpoint = "analyze-upload"
     /\ r.content_type # <<>>
     /\ StartsWithImage(r.content_type)
\* the request carries a decodable image
ReqDecodable(r) ==
  /\ ReqAnalyzed(r)
  /\ ~ImDecode(ReqFile(r)).raised
  /\ ImDecode(ReqFile(r)).val # NoImage
\* the request carries an image in which the detector finds no face
NoFaceFound(r) ==
  /\ ReqDecodable(r)
  /\ DetectFaces(ImDecode(ReqFile(r)).val, r.det) = <<>>

\* C1: on both analysis endpoints, an image in which the detector finds no
\* face is answered 200 with faces_detected = 0, results = [] and
\* total_confidence = 0.
C1_NoFaceIsEmptySuccess ==
  NoFaceFound(req) =>
    /\ resp.status = 200
    /\ resp.faces_detected = 0
    /\ resp.results = <<>>
    /\ resp.total_confidence = 0

C1_Witness ==
  /\ req.endpoint = "analyze-upload"
  /\ NoFaceFound(req)
  /\ req.det = "ok"
  /\ resp.status = 200
  /\ resp.faces_detected = 0

\* C2: in every successful analysis response, len(results) = faces_detected
\* = image_info.faces_found, and the face_id values are 1..faces_detected in
\* list order.
C2_CountsAndFaceIds ==
  (req.endpoint # "none" /\ resp.status = 200) =>
    /\ Len(resp.results) = resp.faces_detected
    /\ resp.image_info.faces_found = resp.faces_detected
    /\ \A i \in 1..Len(resp.results) : resp.results[i].face_id = i

C2_Witness ==
  /\ req.endpoint = "analyze-image"
  /\ resp.status = 200
  /\ resp.faces_detected = 2
  /\ resp.results[2].face_id = 2

\* C4: in every successful analysis response, total_confidence is the sum of
\* the confidence fields of the entries of results (0 when there is none).
C4_TotalConfidenceIsSum ==
  (req.endpoint # "none" /\ resp.status = 200) =>
    resp.total_confidence =
      SumSeq([i \in 1..Len(resp.results) |-> resp.results[i].confidence])

C4_Witness ==
  /\ resp.status = 200
  /\ Len(resp.results) = 2
  /\ resp.results[1].confidence # resp.results[2].confidence
  /\ resp.total_confidence = 1500

\* C5 (as claimed): the bbox reported for every face lies inside the image:
\* 0 <= x, 0 <= y, x + width <= image width, y + height <= image height.
C5_BboxWithinImage ==
  (req.endpoint # "none" /\ resp.status = 200) =>
    \A i \in 1..Len(resp.results) :
      LET b == resp.results[i].bbox IN
      /\ 0 <= b.x
      /\ 0 <= b.y
      /\ b.x + b.width <= ImgW
      /\ b.y + b.height <= ImgH

\* the request carries something the handler analyses but that is no image
Undecodable(r) == ReqAnalyzed(r) /\ ~ReqDecodable(r)

\* C9: a payload that cannot be decoded into an image (invalid base64, or
\* bytes that are no image) is answered 200 with faces_detected = 0 and
\* results = [], and the request writes no history record.
C9_UndecodableIsEmptySuccess ==
  [][ Undecodable(req') =>
        /\ resp'.status = 200
        /\ resp'.faces_detected = 0
        /\ resp'.results = <<>>
        /\ history' = history ]_vars

C9_Witness ==
  /\ req.endpoint = "analyze-image"
  /\ B64Decode(req.image_data).raised
  /\ resp.status = 200
  /\ resp.faces_detected = 0
  /\ Len(history) = 1

\* C10: an analysis request answered with faces_detected >= 1 appends
\* exactly one history record, with faces_count = faces_detected, avg_age =
\* (sum of the ages) / faces_detected, the emotions and races of the results
\* in order and the request's session_id; a request answered with
\* faces_detected = 0, or with an error, leaves the history as it was.
C10_OneRecordPerAnalysisWithFaces ==
  [][ req'.endpoint # "none" =>
        IF resp'.status = 200 /\ resp'.faces_detected >= 1
          THEN LET n == resp'.faces_detected
                   h == history'[Len(history')]
               IN  /\ Len(history') = Len(history) + 1
                   /\ SubSeq(history', 1, Len(history)) = history
                   /\ h.faces_count = n
                   /\ h.avg_age.den > 0
                   /\ h.avg_age.num * n =
                        h.avg_age.den *
                          SumSeq([i \in 1..n |-> resp'.results[i].age.value])
                   /\ h.emotions =
                        [i \in 1..n |-> resp'.results[i].emotion.value]
                   /\ h.races = [i \in 1..n |-> resp'.results[i].race.value]
                   /\ h.session_id = req'.session_id
          ELSE history' = history ]_vars

C10_Witness ==
  /\ resp.status = 200
  /\ Len(history) = 2
  /\ history[2].faces_count = 2
  /\ history[2].session_id = Some("s1")
  /\ history[1].session_id = None
  /\ history[2].emotions[1] # history[2].emotions[2]
  /\ history[2].avg_age.den = 2

(***************************************************************************)
(* Properties of the analyzer's methods (SpecAnalyzer).                    *)
(***************************************************************************)
AgeModelLoaded == "age_processor" \in attrs /\ "age_model" \in attrs
RaceModelLoaded == "race_processor" \in attrs /\ "race_model" \in attrs
EmotionModelLoaded == "emotion_model" \in attrs

\* C3: every FaceAnalysisResult of analyze_image carries at most 10
\* landmark points (landmarks_count is in 0..10), however many the mesh
\* returns, and none when the mesh returns none or fails.
C3_AtMostTenLandmarks ==
  (call.fn = "analyze_image" /\ ret.done) =>
    \A i \in 1..Len(ret.r.val) :
      LET result == ret.r.val[i] IN
      /\ Len(result.landmarks) <= 10
      /\ ResultDict(i, result).landmarks_count \in 0..10
      /\ call.env.faces[i].mesh # "face" => result.landmarks = <<>>

C3_Witness ==
  /\ call.fn = "analyze_image"
  /\ ret.done
  /\ Len(ret.r.val) = 2
  /\ call.env.faces[1].mesh = "face"
  /\ Len(GetFaceLandmarks(call.image, "face")) > 10
  /\ Len(ret.r.val[1].landmarks) = 10
  /\ call.env.faces[2].mesh = "raise"
  /\ ret.r.val[2].landmarks = <<>>

\* C6: a classifier whose model or processor is not loaded, whose model
\* raises or (emotion) answers with no result returns confidence 0.5 and a
\* value of its stub's set; otherwise its confidence is the model's score,
\* in [0, 1].
C6_StubOrModelScore ==
  ret.done =>
    /\ call.fn = "estimate_age" =>
         /\ ~ret.r.raised
         /\ IF ~AgeModelLoaded \/ call.out.kind = "raise"
              THEN ret.r.val[2] = 500 /\ ret.r.val[1] \in 18..65
              ELSE ret.r.val[2] = call.out.score /\ ret.r.val[2] \in 0..1000
    /\ call.fn = "classify_race" =>
         /\ ~ret.r.raised
         /\ IF ~RaceModelLoaded \/ call.out.kind = "raise"
              THEN /\ ret.r.val[2] = 500
                   /\ ret.r.val[1] \in { "Asian", "Black", "Indian", "White",
                                         "Middle Eastern", "Mixed", "Other" }
              ELSE ret.r.val[2] = call.out.score /\ ret.r.val[2] \in 0..1000
    /\ call.fn = "detect_emotion" =>
         /\ ~ret.r.raised
         /\ IF ~EmotionModelLoaded \/ call.out.kind \in { "raise", "empty" }
              THEN /\ ret.r.val[2] = 500
                   /\ ret.r.val[1] \in { "Happy", "Sad", "Angry", "Fear",
                                         "Surprise", "Disgust", "Neutral" }
              ELSE ret.r.val[2] = call.out.score /\ ret.r.val[2] \in 0..1000

C6_Witness ==
  /\ ret.done
  /\ call.fn = "estimate_age"
  /\ AgeModelLoaded
  /\ call.out.kind = "raise"
  /\ ret.r.val = << 65, 500 >>

\* C7: classifier failures are independent per face: whatever subset of the
\* three classifiers fails on a face, a classifier that does not fail puts
\* its model's output in that face's result, and no face is left out of the
\* results because a classifier failed.
C7_FailuresAreIndependent ==
  (call.fn = "analyze_image" /\ ret.done /\ call.env.det = "ok") =>
    LET results == ret.r.val
        faces == DetectFaces(call.image, "ok")
    IN  /\ (\A i \in 1..Len(faces) :
              ~CropFace(call.image, faces[i].bbox).raised)
             => Len(results) = Len(faces)
        /\ \A i \in 1..Len(results) :
             LET fenv == call.env.faces[i] IN
             /\ (AgeModelLoaded /\ fenv.age.kind = "ok") =>
                  /\ results[i].age = fenv.age.idx
                  /\ results[i].age_confidence = fenv.age.score
             /\ (RaceModelLoaded /\ fenv.race.kind = "ok") =>
                  /\ results[i].race =
                       race_categories[(fenv.race.idx % 5) + 1]
                  /\ results[i].race_confidence = fenv.race.score
             /\ (EmotionModelLoaded /\ fenv.emotion.kind = "ok") =>
                  /\ results[i].emotion = "Happy"
                  /\ results[i].emotion_confidence = fenv.emotion.score

C7_Witness ==
  /\ call.fn = "analyze_image"
  /\ ret.done
  /\ Len(ret.r.val) = 2
  /\ AgeModelLoaded /\ ~RaceModelLoaded /\ EmotionModelLoaded
  /\ call.env.faces[1].age.kind = "raise"
  /\ call.env.faces[1].emotion.kind = "ok"
  /\ ret.r.val[1].age_confidence = 500
  /\ ret.r.val[1].race_confidence = 500
  /\ ret.r.val[1].emotion = "Happy"
  /\ ret.r.val[1].emotion_confidence = 910
  /\ call.env.faces[2].age.kind = "ok"
  /\ ret.r.val[2].age_confidence = 870

\* C8: estimate_age, classify_race and detect_emotion never raise: whatever
\* the model call does, each returns a (value, confidence) pair.
C8_ClassifiersNeverRaise ==
  (ret.done /\ call.fn \in { "estimate_age", "classify_race",
                             "detect_emotion" }) =>
    /\ ~ret.r.raised
    /\ Len(ret.r.val) = 2

C8_Witness ==
  /\ ret.done
  /\ call.fn = "detect_emotion"
  /\ EmotionModelLoaded
  /\ call.out.kind = "raise"
  /\ ~ret.r.raised
  /\ Len(ret.r.val) = 2

(***************************************************************************)
(* Properties of the history endpoints (SpecHistory).                      *)
(***************************************************************************)
IsAnalysis(r) == r.endpoint \in { "analyze-image", "analyze-upload" }
IsRead(r) == r.endpoint \in { "analysis-history", "analytics-summary" }

\* C11: the history store is append-only: no request changes a record that
\* exists; an analysis request leaves the store as it was or appends one
\* record; GET /api/analysis-history and GET /api/analytics/summary leave
\* it unchanged; only DELETE /api/analysis-history makes a record disappear.
C11_HistoryIsAppendOnly ==
  [][ \/ history' = history
      \/ /\ ~IsRead(req')
         /\ \A i \in 1..Len(history') :
              (\E j \in 1..Len(history) : history[j].id = history'[i].id)
                => (\E j \in 1..Len(history) : history[j] = history'[i])
         /\ IsAnalysis(req') =>
              /\ Len(history') = Len(history) + 1
              /\ SubSeq(history', 1, Len(history)) = history
         /\ (\E j \in 1..Len(history) :
               \A i \in 1..Len(history') : history'[i] # history[j])
              => req'.endpoint = "clear-history" ]_vars

C11_Witness ==
  /\ req.endpoint = "clear-history"
  /\ resp.status = 200
  /\ resp.deleted_count = 1
  /\ Len(history) = 1
  /\ history[1].id = 2

\* C12 (as claimed): DELETE /api/analysis-history with a session_id value,
\* the empty string included, removes exactly the records whose session_id
\* equals the value and returns their number as deleted_count.
C12_DeleteRemovesExactlyTheSession ==
  [][ (req'.endpoint = "clear-history" /\ req'.session_id.some
         /\ resp'.status = 200) =>
        /\ history' = SelectSeq(history,
                        LAMBDA item : item.session_id # req'.session_id)
        /\ resp'.deleted_count = Len(history) - Len(history') ]_vars

Given(r) == r.session_id.some /\ r.session_id.val # ""

\* the records of the store that match the request's session filter
MatchingRecords(r) ==
  SelectSeq(history, LAMBDA item : Given(r) => item.session_id = r.session_id)

C15_NoEmptyDenominator ==
  (req.endpoint = "analytics-summary" /\ req.dbOut = "ok") =>
    LET matching == MatchingRecords(req) IN
    /\ resp.status = 200
    /\ matching = <<>> =>
         /\ resp.total_analyses = 0
         /\ resp.total_faces = 0
         /\ resp.avg_age.num = 0
         /\ resp.avg_processing_time.num = 0
         /\ DOMAIN resp.emotion_distribution = {}
         /\ DOMAIN resp.race_distribution = {}
    /\ (\A i \in 1..Len(matching) : matching[i].avg_age.num = 0)
         => resp.avg_age.num = 0
    /\ (\A i \in 1..Len(matching) : matching[i].processing_time_ms = 0)
         => resp.avg_processing_time.num = 0

C15_Witness ==
  /\ req.endpoint = "analytics-summary"
  /\ req.dbOut = "ok"
  /\ Len(MatchingRecords(req)) = 2
  /\ \A i \in 1..2 : /\ MatchingRecords(req)[i].avg_age.num = 0
                     /\ MatchingRecords(req)[i].processing_time_ms = 0
  /\ resp.status = 200
  /\ resp.total_analyses = 2
  /\ resp.avg_age.num = 0
  /\ resp.avg_processing_time.num = 0

\* C16 (as claimed): the summary's total_analyses is the number of records
\* matching the session filter and total_faces the sum of their
\* faces_count, whatever the number of records stored.
C16_TotalsCoverEveryMatchingRecord ==
  (req.endpoint = "analytics-summary" /\ resp.status = 200) =>
    LET matching == MatchingRecords(req) IN
    /\ resp.total_analyses = Len(matching)
    /\ resp.total_faces =
         SumSeq([i \in 1..Len(matching) |-> matching[i].faces_count])

\* C17 (as claimed): the summary's avg_age is the mean, rounded to 1
\* decimal, of the avg_age of every matching record, a record whose avg_age
\* is 0 counting in the sum and in the denominator.
C17_AvgAgeCountsAgeZero ==
  (req.endpoint = "analytics-summary" /\ resp.status = 200) =>
    LET matching == MatchingRecords(req) IN
    matching # <<>> =>
      resp.avg_age =
        Round(QDiv(QSum([i \in 1..Len(matching) |-> matching[i].avg_age]),
                   Len(matching)), 1)

\* the number of places of a records' label lists (emotions or races, given
\* as one list per record) that hold label l
Occurrences(lists, l) ==
  Cardinality(UNION { { << i, j >> : j \in { j \in 1..Len(lists[i]) :
                                              lists[i][j] = l } } :
                      i \in 1..Len(lists) })

\* the labels a records' label lists hold
LabelsOf(lists) ==
  UNION { { lists[i][j] : j \in 1..Len(lists[i]) } : i \in 1..Len(lists) }

C19_SameFacesBothWays ==
  /\ (req.endpoint = "analyze-image" /\ resp.status = 200) =>
       \A B \in RequestFiles :
         req.image_data \in { B64Encode(B), DataUrl(B64Encode(B)) } =>
           \A env \in Envs(RequestFaceEnvs, FacesIn(B)) :
             env.det = req.det =>
               resp.faces_detected =
                 Len(AnalyzeImageFromBytes(attrs, B, env).val)
  /\ (/\ req.endpoint = "analyze-upload"
      /\ resp.status = 200) =>
       \A text \in { B64Encode(req.file_contents),
                     DataUrl(B64Encode(req.file_contents)) } :
         \A env \in Envs(RequestFaceEnvs, FacesIn(req.file_contents)) :
           env.det = req.det =>
             resp.faces_detected =
               Len(AnalyzeImageFromBase64(attrs, text, env).val)

C19_Witness ==
  /\ req.endpoint = "analyze-image"
  /\ req.image_data = DataUrl(B64Encode(<< MagicByte, 5 >>))
  /\ req.det = "ok"
  /\ resp.status = 200
  /\ resp.faces_detected = 1

\* C20 (as claimed): POST /api/analyze-upload with a file whose content
\* type does not start with 'image/' is answered 400 'File must be an
\* image'.
C20_NonImageUploadIs400 ==
  (/\ req.endpoint = "analyze-upload"
   /\ req.content_type # <<>>
   /\ ~StartsWithImage(req.content_type)) =>
    /\ resp.status = 400
    /\ resp.detail = "File must be an image"

(***************************************************************************)
(* Properties of the handlers' error handling.                             *)
(***************************************************************************)
\* the analysis of the request finds a face, so that the handler inserts a
\* history record
InsertAttempted(r) ==
  /\ ReqAnalyzed(r)
  /\ \E env \in Envs(RequestFaceEnvs, FacesIn(ReqFile(r))) :
       /\ env.det = r.det
       /\ AnalyzeImageFromBytes(attrs, ReqFile(r), env).val # <<>>

\* C21: an exception raised while a request is handled - the history insert
\* failing after the analysis succeeded, the database failing in the
\* history, summary or delete handler - is answered 500 with a detail
\* message, never 200.
C21_ExceptionsAre500 ==
  /\ (IsAnalysis(req) /\ req.insOut = "raise" /\ InsertAttempted(req)) =>
       /\ resp.status = 500
       /\ resp.detail # ""
  /\ (/\ req.endpoint \in { "analysis-history", "analytics-summary",
                            "clear-history" }
      /\ req.dbOut = "raise") =>
       /\ resp.status = 500
       /\ resp.detail # ""

C21_Witness ==
  /\ req.endpoint = "analyze-image"
  /\ req.insOut = "raise"
  /\ InsertAttempted(req)
  /\ resp.status = 500
  /\ Len(history) = 1

\* C22: when the face detector raises on a decodable picture, the request
\* completes as an analysis of no face: 200, faces_detected = 0, no
\* results, and no history record.
C22_DetectorFailureIsZeroFaces ==
  [][ (ReqAnalyzed(req') /\ req'.det = "raise") =>
        /\ resp'.status = 200
        /\ resp'.faces_detected = 0
        /\ resp'.results = <<>>
        /\ history' = history ]_vars

C22_Witness ==
  /\ ReqDecodable(req)
  /\ FacesIn(ReqFile(req)) = 2
  /\ req.det = "raise"
  /\ resp.status = 200
  /\ resp.faces_detected = 0
  /\ Len(history) = 1

(***************************************************************************)
(* Properties of get_face_analyzer (SpecSingleton).                        *)
(***************************************************************************)
\* C23 (as claimed): across any number of calls of get_face_analyzer, from
\* threads that interleave, at most one FaceAnalyzer is constructed and
\* every call returns the same instance.
C23_OneAnalyzerEver ==
  /\ constructed <= 1
  /\ Cardinality(returned) <= 1

(***************************************************************************)
(* start_server.py: ServerManager.run on the main thread, signal_handler   *)
(* (run on the main thread when SIGINT or SIGTERM arrives, or called by    *)
(* run), the daemon thread of monitor_processes, and the child processes.  *)
(* A child is "running", "terminating" (terminate() sent, poll() still     *)
(* None) or "stopped"; backend_process and frontend_process index the      *)
(* children started.                                                       *)
(***************************************************************************)
ManagerFrame ==
  UNCHANGED << attrs, history, inserted, req, resp, call, ret, analyzerVars >>

InitManager ==
  /\ attrs = {}
  /\ history = <<>>
  /\ inserted = 0
  /\ req = [endpoint |-> "none"]
  /\ resp = [status |-> 0]
  /\ call = [fn |-> "none"]
  /\ ret = [done |-> FALSE]
  /\ AnalyzerIdle
  /\ ManagerIdle

\* Popen.poll() is not None
Stopped(p) == children[p].state = "stopped"

\* Popen.terminate()
Terminate(cs, p) ==
  IF p # 0 /\ cs[p].state = "running"
    THEN [cs EXCEPT ![p].state = "terminating"]
    ELSE cs

\* Popen.kill() under "poll() is None"
Kill(cs, p) ==
  IF p # 0 /\ cs[p].state # "stopped"
    THEN [cs EXCEPT ![p].state = "stopped"]
    ELSE cs

\* subprocess.Popen starts a child or raises; no more than MaxChildren
\* children are started
PopenOutcomes ==
  IF Len(children) < MaxChildren THEN { "ok", "raise" } ELSE { "raise" }

\* sys.exit(status) on the main thread: the daemon thread ends with it
Exit(status, failed) ==
  /\ main' = [pc |-> "exited", failed |-> failed, interrupted |-> "none"]
  /\ exit_code' = status

\* run up to the installation of the signal handlers
Run ==
  /\ main.pc = "off"
  /\ main' = [main EXCEPT !.pc = "prereq"]
  /\ UNCHANGED << monitor, backend_process, frontend_process, children,
                  exit_code >>
  /\ ManagerFrame

\* run: check_prerequisites, then the environment files and dependencies
CheckPrerequisites ==
  /\ main.pc = "prereq"
  /\ \E ok \in BOOLEAN :
       IF ok THEN /\ main' = [main EXCEPT !.pc = "backend"]
                  /\ UNCHANGED exit_code
             ELSE Exit(1, "prerequisites")
  /\ UNCHANGED << monitor, backend_process, frontend_process, children >>
  /\ ManagerFrame

\* run: start_backend
StartBackend ==
  /\ main.pc = "backend"
  /\ \E out \in PopenOutcomes :
       IF out = "ok"
         THEN /\ children' = Append(children, [kind |-> "backend",
                                               state |-> "running"])
              /\ backend_process' = Len(children) + 1
              /\ main' = [main EXCEPT !.pc = "wait"]
              /\ UNCHANGED exit_code
         ELSE /\ Exit(1, "backend")
              /\ UNCHANGED << children, backend_process >>
  /\ UNCHANGED << monitor, frontend_process >>
  /\ ManagerFrame

\* run: wait_for_backend returns True, ready or timed out
WaitForBackend ==
  /\ main.pc = "wait"
  /\ main' = [main EXCEPT !.pc = "frontend"]
  /\ UNCHANGED << monitor, backend_process, frontend_process, children,
                  exit_code >>
  /\ ManagerFrame

\* run: start_frontend; on failure run calls signal_handler
StartFrontend ==
  /\ main.pc = "frontend"
  /\ \E out \in PopenOutcomes :
       IF out = "ok"
         THEN /\ children' = Append(children, [kind |-> "frontend",
                                               state |-> "running"])
              /\ frontend_process' = Len(children) + 1
              /\ main' = [main EXCEPT !.pc = "monitor_start"]
         ELSE /\ main' = [main EXCEPT !.pc = "h_term_front",
                                      !.failed = "frontend"]
              /\ UNCHANGED << children, frontend_process >>
  /\ UNCHANGED << monitor, backend_process, exit_code >>
  /\ ManagerFrame

\* run: monitor_processes starts the daemon thread; run then idles
MonitorProcesses ==
  /\ main.pc = "monitor_start"
  /\ main' = [main EXCEPT !.pc = "idle"]
  /\ monitor' = "m_check_back"
  /\ UNCHANGED << backend_process, frontend_process, children, exit_code >>
  /\ ManagerFrame

\* SIGINT or SIGTERM arrives while run is at one of its steps
Signal ==
  /\ main.pc \in { "prereq", "backend", "wait", "frontend", "monitor_start",
                   "idle" }
  /\ main' = [main EXCEPT !.pc = "h_term_front", !.interrupted = main.pc]
  /\ UNCHANGED << monitor, backend_process, frontend_process, children,
                  exit_code >>
  /\ ManagerFrame

\* signal_handler: frontend_process.terminate()
HandlerTerminateFrontend ==
  /\ main.pc = "h_term_front"
  /\ children' = Terminate(children, frontend_process)
  /\ main' = [main EXCEPT !.pc = "h_term_back"]
  /\ UNCHANGED << monitor, backend_process, frontend_process, exit_code >>
  /\ ManagerFrame

\* signal_handler: backend_process.terminate()
HandlerTerminateBackend ==
  /\ main.pc = "h_term_back"
  /\ children' = Terminate(children, backend_process)
  /\ main' = [main EXCEPT !.pc = "h_sleep"]
  /\ UNCHANGED << monitor, backend_process, frontend_process, exit_code >>
  /\ ManagerFrame

\* signal_handler: time.sleep(2)
HandlerSleep ==
  /\ main.pc = "h_sleep"
  /\ main' = [main EXCEPT !.pc = "h_kill_front"]
  /\ UNCHANGED << monitor, backend_process, frontend_process, children,
                  exit_code >>
  /\ ManagerFrame

\* signal_handler: kill the frontend if poll() is None
HandlerKillFrontend ==
  /\ main.pc = "h_kill_front"
  /\ children' = Kill(children, frontend_process)
  /\ main' = [main EXCEPT !.pc = "h_kill_back"]
  /\ UNCHANGED << monitor, backend_process, frontend_process, exit_code >>
  /\ ManagerFrame

\* signal_handler: kill the backend if poll() is None
HandlerKillBackend ==
  /\ main.pc = "h_kill_back"
  /\ children' = Kill(children, backend_process)
  /\ main' = [main EXCEPT !.pc = "h_exit"]
  /\ UNCHANGED << monitor, backend_process, frontend_process, exit_code >>
  /\ ManagerFrame

\* signal_handler: sys.exit(0).  SystemExit raised while run is inside the
\* bare "except:" of check_prerequisites or wait_for_backend is caught
\* there: check_prerequisites then returns False, wait_for_backend goes on
HandlerExit ==
  /\ main.pc = "h_exit"
  /\ \/ Exit(0, main.failed)
     \/ /\ main.interrupted = "prereq"
        /\ Exit(1, "prerequisites")
     \/ /\ main.interrupted = "wait"
        /\ main' = [main EXCEPT !.pc = "wait", !.interrupted = "none"]
        /\ UNCHANGED exit_code
  /\ UNCHANGED << monitor, backend_process, frontend_process, children >>
  /\ ManagerFrame

\* the monitor thread runs as long as the manager has not exited
MonitorRuns == monitor # "off" /\ main.pc # "exited"

\* monitor: if self.backend_process and self.backend_process.poll() is not
\* None
MonitorCheckBackend ==
  /\ MonitorRuns
  /\ monitor = "m_check_back"
  /\ monitor' = IF backend_process # 0 /\ Stopped(backend_process)
                  THEN "m_start_back"
                  ELSE "m_check_front"
  /\ UNCHANGED << main, backend_process, frontend_process, children,
                  exit_code >>
  /\ ManagerFrame

\* monitor: self.start_backend()
MonitorStartBackend ==
  /\ MonitorRuns
  /\ monitor = "m_start_back"
  /\ \E out \in PopenOutcomes :
       IF out = "ok"
         THEN /\ children' = Append(children, [kind |-> "backend",
                                               state |-> "running"])
              /\ backend_process' = Len(children) + 1
         ELSE UNCHANGED << children, backend_process >>
  /\ monitor' = "m_check_front"
  /\ UNCHANGED << main, frontend_process, exit_code >>
  /\ ManagerFrame

\* monitor: if self.frontend_process and self.frontend_process.poll() is
\* not None
MonitorCheckFrontend ==
  /\ MonitorRuns
  /\ monitor = "m_check_front"
  /\ monitor' = IF frontend_process # 0 /\ Stopped(frontend_process)
                  THEN "m_start_front"
                  ELSE "m_sleep"
  /\ UNCHANGED << main, backend_process, frontend_process, children,
                  exit_code >>
  /\ ManagerFrame

\* monitor: self.start_frontend()
MonitorStartFrontend ==
  /\ MonitorRuns
  /\ monitor = "m_start_front"
  /\ \E out \in PopenOutcomes :
       IF out = "ok"
         THEN /\ children' = Append(children, [kind |-> "frontend",
                                               state |-> "running"])
              /\ frontend_process' = Len(children) + 1
         ELSE UNCHANGED << children, frontend_process >>
  /\ monitor' = "m_sleep"
  /\ UNCHANGED << main, backend_process, exit_code >>
  /\ ManagerFrame

\* monitor: time.sleep(5)
MonitorSleep ==
  /\ MonitorRuns
  /\ monitor = "m_sleep"
  /\ monitor' = "m_check_back"
  /\ UNCHANGED << main, backend_process, frontend_process, children,
                  exit_code >>
  /\ ManagerFrame

\* a child process ends: on its own, or having received terminate()
ChildStops ==
  /\ \E p \in 1..Len(children) :
       /\ children[p].state # "stopped"
       /\ children' = [children EXCEPT ![p].state = "stopped"]
  /\ UNCHANGED << main, monitor, backend_process, frontend_process,
                  exit_code >>
  /\ ManagerFrame

NextManager ==
  \/ Run
  \/ CheckPrerequisites
  \/ StartBackend
  \/ WaitForBackend
  \/ StartFrontend
  \/ MonitorProcesses
  \/ Signal
  \/ HandlerTerminateFrontend
  \/ HandlerTerminateBackend
  \/ HandlerSleep
  \/ HandlerKillFrontend
  \/ HandlerKillBackend
  \/ HandlerExit
  \/ MonitorCheckBackend
  \/ MonitorStartBackend
  \/ MonitorCheckFrontend
  \/ MonitorStartFrontend
  \/ MonitorSleep
  \/ ChildStops

SpecManager == InitManager /\ [][NextManager]_vars

(***************************************************************************)
(* Properties of the model loading (SpecLoad).                             *)
(***************************************************************************)
\* C24: model loading never aborts the construction and load failures are
\* independent: whatever each load does, the age, emotion and category
\* loads are attempted, the fallback emotion model is attempted iff the
\* primary one fails, and on later calls a classifier is served by its stub
\* iff its model (age, category: model or processor) failed to load, while
\* a classifier whose load succeeded returns its model's output.
C24_LoadFailuresAreIndependent ==
  /\ load.phase # "aborted"
  /\ load.phase = "constructed" =>
       LET outs == load.outs
           tried == { load.attempted[i] : i \in 1..Len(load.attempted) }
           ageOk == outs.age_model = "ok" /\ outs.age_processor = "ok"
           raceOk == outs.race_model = "ok" /\ outs.race_processor = "ok"
           emotionOk == outs.emotion_model = "ok"
                          \/ outs.emotion_fallback = "ok"
       IN  /\ { "age_model", "emotion_model", "race_model" } \subseteq tried
           /\ "emotion_fallback" \in tried <=> outs.emotion_model = "raise"
           /\ AgeModelLoaded <=> ageOk
           /\ RaceModelLoaded <=> raceOk
           /\ EmotionModelLoaded <=> emotionOk
           /\ (ret.done /\ call.out.kind = "ok") =>
                /\ ~ret.r.raised
                /\ call.fn = "estimate_age" =>
                     IF ageOk
                       THEN ret.r.val = << call.out.idx, call.out.score >>
                       ELSE ret.r.val[2] = 500 /\ ret.r.val[1] \in 18..65
                /\ call.fn = "classify_race" =>
                     IF raceOk
                       THEN ret.r.val[2] = call.out.score
                       ELSE ret.r.val[2] = 500
                /\ call.fn = "detect_emotion" =>
                     IF emotionOk
                       THEN ret.r.val = << "Happy", call.out.score >>
                       ELSE ret.r.val[2] = 500

C24_Witness ==
  /\ load.phase = "constructed"
  /\ load.outs.age_model = "raise"
  /\ load.outs.emotion_model = "raise"
  /\ load.outs.emotion_fallback = "ok"
  /\ load.outs.race_model = "ok"
  /\ load.outs.race_processor = "raise"
  /\ load.attempted = << "age_model", "emotion_model", "emotion_fallback",
                         "race_model", "race_processor" >>
  /\ call.fn = "detect_emotion"
  /\ call.out.kind = "ok"
  /\ ret.done
  /\ ret.r.val = << "Happy", 910 >>

(***************************************************************************)
(* Properties of crop_face, analyze_image and classify_race                *)
(* (SpecAnalyzer).                                                         *)
(***************************************************************************)
\* C25: for every bbox the detector produces on an image of width W and
\* height H, the padded crop rectangle of crop_face is a non-empty
\* rectangle inside the image: 0 <= x1 < x2 <= W and 0 <= y1 < y2 <= H.
C25_CropRectNonEmptyInside ==
  (call.fn = "analyze_image" /\ ret.done) =>
    LET faces == DetectFaces(call.image, call.env.det) IN
    \A i \in 1..Len(faces) :
      LET r == CropRect(call.image, faces[i].bbox) IN
      /\ 0 <= r.x1 /\ r.x1 < r.x2 /\ r.x2 <= call.image.w
      /\ 0 <= r.y1 /\ r.y1 < r.y2 /\ r.y2 <= call.image.h

\* C26: analyze_image returns exactly one result per face detect_faces
\* returned, in detector order, each with face_detected = True and that
\* face's bbox and detection confidence; no detected face is dropped.
C26_OneResultPerDetectedFace ==
  (call.fn = "analyze_image" /\ ret.done) =>
    LET faces == DetectFaces(call.image, call.env.det)
        results == ret.r.val
    IN  /\ Len(results) = Len(faces)
        /\ \A i \in 1..Len(faces) :
             /\ results[i].face_detected
             /\ results[i].bbox = faces[i].bbox
             /\ results[i].confidence = faces[i].confidence

\* C28: whenever the category model is used, classify_race returns a label
\* of the 5-entry taxonomy for every class index: the label at the index
\* modulo 5, so class indices that differ by a multiple of 5 give the same
\* label.
C28_LabelByIndexModuloFive ==
  (call.fn = "classify_race" /\ ret.done /\ RaceModelLoaded
     /\ call.out.kind = "ok") =>
    /\ ~ret.r.raised
    /\ ret.r.val[1] \in { "Asian", "Black", "Indian", "White",
                          "Middle Eastern" }
    /\ ret.r.val[1] = race_categories[(call.out.idx % 5) + 1]
    /\ ret.r.val[2] = call.out.score
    /\ \A j \in 0..MaxRaceClass :
         (j - call.out.idx) % 5 = 0 =>
           ClassifyRace(attrs, [call.out EXCEPT !.idx = j]).val[1]
             = ret.r.val[1]

C28_Witness ==
  /\ call.fn = "classify_race"
  /\ ret.done
  /\ RaceModelLoaded
  /\ call.out.kind = "ok"
  /\ call.out.idx = 6
  /\ ret.r.val = << "Black", 870 >>

(***************************************************************************)
(* The summary's distributions against its face count (SpecHistory).       *)
(***************************************************************************)
\* the sum of the counts of a distribution
RECURSIVE DistTotal(_)
DistTotal(dist) ==
  IF DOMAIN dist = {} THEN 0
  ELSE LET l == CHOOSE l \in DOMAIN dist : TRUE IN
       dist[l] + DistTotal([k \in DOMAIN dist \ { l } |-> dist[k]])

\* C27: after any sequence of analysis and delete requests, for every
\* session filter the summary's emotion_distribution counts and its
\* race_distribution counts both add up to total_faces.
C27_DistributionsAddUpToTotalFaces ==
  (req.endpoint = "analytics-summary" /\ resp.status = 200) =>
    /\ DistTotal(resp.emotion_distribution) = resp.total_faces
    /\ DistTotal(resp.race_distribution) = resp.total_faces

C27_Witness ==
  /\ req.endpoint = "analytics-summary"
  /\ resp.status = 200
  /\ Given(req)
  /\ Len(history) = 2
  /\ resp.total_faces = 3
  /\ DistTotal(resp.emotion_distribution) = 3
  /\ DistTotal(resp.race_distribution) = 3

(***************************************************************************)
(* Properties of the process manager (SpecManager).                        *)
(***************************************************************************)
\* C29: once signal_handler has run to its exit, no backend or frontend
\* child process the manager started is still running, for every
\* interleaving of the handler with the monitor thread.
C29_NoChildOutlivesShutdown ==
  (main.pc = "exited" /\ exit_code = 0) =>
    \A p \in 1..Len(children) : children[p].state = "stopped"

\* C30: every start-up failure ends the manager with exit status 1; failed
\* prerequisites and a failed backend start leave no frontend started, a
\* failed frontend start leaves the backend stopped; the frontend is
\* started only after the backend was started and wait_for_backend
\* returned.
C30_StartupFailureExitsOne ==
  /\ (frontend_process # 0) => (backend_process # 0 /\ main.pc # "wait")
  /\ (main.pc = "exited" /\ main.failed # "none") =>
       /\ exit_code = 1
       /\ main.failed \in { "prerequisites", "backend" } =>
            frontend_process = 0
       /\ main.failed = "frontend" =>
            backend_process # 0 /\ Stopped(backend_process)

====
